---- MODULE Spec2Model ----
(***************************************************************************)
(* haikubot: the line repository, the sampler, the poem composer, blame    *)
(* and stats of src/haikubot/db.py, and the command handlers of            *)
(* src/haikubot/haiku.py that drive them.                                  *)
(*                                                                         *)
(* The MongoDB collections db.lines and db.poems are the state.  A text is *)
(* a tuple of characters, so that the case-insensitive regular-expression  *)
(* match of a search term is computed and not assumed.                     *)
(***************************************************************************)
EXTENDS Integers, Sequences, FiniteSets, TLC

VARIABLES lines, poems, nextLine, nextPoem, last, adds, race

vars == <<lines, poems, nextLine, nextPoem, last, adds, race>>

----------------------------------------------------------------------------
(* Bounds of the model *)

\* the largest _id db.lines.insert_one hands out
MaxLineId == 7
\* the largest number of poems db.poems holds
MaxPoems == 3
\* the number of add_haiku_line calls that run at the same time
MaxAdds == 3

----------------------------------------------------------------------------
(* Values *)

\* Python's None for an optional user_id / position / search_term
NoUser == ""
NoPosition == ""
NoTerm == << >>

\* LinePosition
FIRST == "first"
LAST == "last"
Positions == {NoPosition, FIRST, LAST}

Users == {"UA", "UB"}

\* SlackContext values the operations are called with: two users of team T1,
\* each in a channel
ContextA == [user_id |-> "UA", channel_id |-> "C1", team_id |-> "T1"]
ContextB == [user_id |-> "UB", channel_id |-> "C2", team_id |-> "T1"]
Contexts == {ContextA, ContextB}

\* line texts
TextPo == <<"P", "o">>
TextSk == <<"s", "k">>
TextSx == <<"s", "x">>
TextSz == <<"s", "z">>

\* the text and positions add, remove and claim are called with; the line Po
\* stays as it is stored
OpTexts == {TextSk}
OpPositions == {NoPosition, LAST}

\* search terms of "about <topic>": S is in sk, sx and sz, z in sz only, w in
\* no text
Terms == { <<"S">>, <<"z">>, <<"w">> }

Syllables == {5, 7}

----------------------------------------------------------------------------
(* Regular-expression search, re.IGNORECASE *)

UpperToLower ==
    ("P" :> "p") @@ ("O" :> "o") @@ ("S" :> "s") @@ ("K" :> "k") @@ ("X" :> "x")
    @@ ("Z" :> "z") @@ ("W" :> "w")

Lower(c) == IF c \in DOMAIN UpperToLower THEN UpperToLower[c] ELSE c

LowerSeq(s) == [i \in 1..Len(s) |-> Lower(s[i])]

\* re.escape(line): the texts of the model hold letters only, which escape to themselves
re_escape(line) == line

\* the pattern add_line searches with: f'^{re.escape(line)}$'
exact_term(line) == <<"^">> \o re_escape(line) \o <<"$">>

\* {'text': re.compile(search_term, re.IGNORECASE)} as MongoDB applies it: a
\* search anywhere in the text, anchored by a leading ^ and a trailing $
regex_search(term, text) ==
    LET anchS == Len(term) > 0 /\ term[1] = "^"
        anchE == Len(term) > 0 /\ term[Len(term)] = "$"
        lit   == LowerSeq(SubSeq(term, IF anchS THEN 2 ELSE 1,
                                       IF anchE THEN Len(term) - 1 ELSE Len(term)))
        hay   == LowerSeq(text)
        n     == Len(lit)
    IN  \E k \in 0..(Len(hay) - n) :
            /\ SubSeq(hay, k + 1, k + n) = lit
            /\ anchS => k = 0
            /\ anchE => k + n = Len(hay)

----------------------------------------------------------------------------
(* Sequence helpers *)

Range(s) == { s[i] : i \in DOMAIN s }

Min(a, b) == IF a < b THEN a ELSE b

InSeq(x, s) == \E i \in DOMAIN s : s[i] = x

\* list.remove(x) for a list without repeated elements
list_remove(s, x) == SelectSeq(s, LAMBDA e : e # x)

\* every order random.shuffle can leave a list of the elements of S in
Orderings(S) ==
    { s \in [1..Cardinality(S) -> S] : \A i, j \in 1..Cardinality(S) : i # j => s[i] # s[j] }

----------------------------------------------------------------------------
(* The sampler: get_random_lines *)

\* the $match stage of get_random_lines
match_lines(L, syllables, context, user_id, search_term, exclude_ids, exclude_position) ==
    { r \in L :
        /\ r.syllables = syllables
        /\ r.team_id = context.team_id
        /\ user_id # NoUser => r.user_id = user_id
        /\ search_term # NoTerm => regex_search(search_term, r.text)
        /\ exclude_ids # {} => r.id \notin exclude_ids
        /\ exclude_position # NoPosition => r.position # exclude_position }

\* the $sample stage: sample_size rows (all rows when fewer match), and the
\* same row may be returned more than once
sample_rows(M, sample_size) == [1..Min(sample_size, Cardinality(M)) -> M]

\* a get_random_lines that returns the rows of the $sample as they come
get_random_lines_no_set(L, syllables, context, user_id, search_term, exclude_ids, exclude_position, sample_size) ==
    sample_rows(match_lines(L, syllables, context, user_id, search_term, exclude_ids,
                            exclude_position), sample_size)

\* every list get_random_lines can return: the rows of one $sample, as a set,
\* in any order
get_random_lines(L, syllables, context, user_id, search_term, exclude_ids, exclude_position, sample_size) ==
    LET M == match_lines(L, syllables, context, user_id, search_term, exclude_ids,
                         exclude_position)
    IN  UNION { Orderings(S) : S \in { Range(rows) : rows \in sample_rows(M, sample_size) } }

----------------------------------------------------------------------------
(* The composer: get_random_fives, get_random_seven, generate_random_haiku *)

SampleSizeFives == 4
SampleSizeDefault == 1

Ids(s) == { s[i].id : i \in DOMAIN s }

NotAt(s, p) == SelectSeq(s, LAMBDA l : l.position # p)

\* a selection that forgets the position: the first candidate, whatever it is
first_allowed_any(matching_lines, ls, p) ==
    IF matching_lines # << >> THEN << Head(matching_lines) >>
    ELSE IF ls # << >> THEN << Head(ls) >>
    ELSE << >>

\* next((l for l in matching_lines if l.position != p),
\*      next((l for l in lines if l.position != p), None)), as a list of 0 or 1 lines
first_allowed(matching_lines, ls, p) ==
    IF NotAt(matching_lines, p) # << >> THEN << Head(NotAt(matching_lines, p)) >>
    ELSE IF NotAt(ls, p) # << >> THEN << Head(NotAt(ls, p)) >>
    ELSE << >>

\* results of get_random_fives: (found_search_term, [first, last]), or the
\* ValueError that list.remove raises
FivesFailure == [fault |-> FALSE, found |-> FALSE, fives |-> << >>]
FivesFault == [fault |-> TRUE, found |-> FALSE, fives |-> << >>]

\* the last line, once the first line is removed from both lists
choose_last(L, context, user_id, found, first_line, matching_lines, ls) ==
    LET c == first_allowed(matching_lines, ls, FIRST)
    IN  IF c # << >>
        THEN { [fault |-> FALSE, found |-> found, fives |-> << first_line, c[1] >>] }
        ELSE { IF e = << >> THEN FivesFailure
               ELSE [fault |-> FALSE, found |-> found, fives |-> << first_line, e[1] >>] :
               e \in get_random_lines(L, 5, context, user_id, NoTerm, {}, FIRST,
                                      SampleSizeDefault) }

\* the first line, and its removal from matching_lines and lines
choose_first(L, context, user_id, found, matching_lines, ls) ==
    LET c == first_allowed(matching_lines, ls, LAST)
        firsts == IF c # << >> THEN {c}
                  ELSE get_random_lines(L, 5, context, user_id, NoTerm, {}, LAST,
                                        SampleSizeDefault)
    IN  UNION { IF f = << >> THEN {FivesFailure}
                ELSE IF ~InSeq(f[1], ls) THEN {FivesFault}
                ELSE choose_last(L, context, user_id, found, f[1],
                                 list_remove(matching_lines, f[1]), list_remove(ls, f[1])) :
                f \in firsts }

\* a flag that is set whether or not the first sample found a line
found_search_term_always(search_term, drawn) == TRUE

\* found_search_term of get_random_fives once the first sample is drawn
found_search_term(search_term, drawn) == search_term = NoTerm \/ drawn # << >>

get_random_fives(L, context, user_id, search_term) ==
    UNION { LET found == found_search_term(search_term, drawn)
            IN  IF Len(drawn) < 2
                THEN IF search_term # NoTerm
                     THEN UNION { IF Len(drawn \o more) < 2 THEN {FivesFailure}
                                  ELSE choose_first(L, context, user_id, found, drawn,
                                                    drawn \o more) :
                                  more \in get_random_lines(L, 5, context, user_id, NoTerm,
                                                            Ids(drawn), NoPosition,
                                                            SampleSizeFives) }
                     ELSE {FivesFailure}
                ELSE choose_first(L, context, user_id, found, drawn, drawn) :
            drawn \in get_random_lines(L, 5, context, user_id, search_term, {}, NoPosition,
                                       SampleSizeFives) }

\* a get_random_seven whose fallback sample leaves the user out
get_random_seven_fallback_any_user(L, context, user_id, search_term) ==
    UNION { IF ls # << >> THEN { [found |-> TRUE, seven |-> << ls[1] >>] }
            ELSE IF search_term # NoTerm
            THEN { [found |-> FALSE, seven |-> IF m # << >> THEN << m[1] >> ELSE << >>] :
                   m \in get_random_lines(L, 7, context, NoUser, NoTerm, {}, NoPosition,
                                          SampleSizeDefault) }
            ELSE { [found |-> FALSE, seven |-> << >>] } :
            ls \in get_random_lines(L, 7, context, user_id, search_term, {}, NoPosition,
                                    SampleSizeDefault) }

\* results of get_random_seven: (found_search_term, line or None)
get_random_seven(L, context, user_id, search_term) ==
    UNION { IF ls # << >> THEN { [found |-> TRUE, seven |-> << ls[1] >>] }
            ELSE IF search_term # NoTerm
            THEN { [found |-> FALSE, seven |-> IF m # << >> THEN << m[1] >> ELSE << >>] :
                   m \in get_random_lines(L, 7, context, user_id, NoTerm, {}, NoPosition,
                                          SampleSizeDefault) }
            ELSE { [found |-> FALSE, seven |-> << >>] } :
            ls \in get_random_lines(L, 7, context, user_id, search_term, {}, NoPosition,
                                    SampleSizeDefault) }

\* Haiku.to_bson
Haiku_to_bson(haiku, context, id, created) ==
    [ lines      |-> [i \in 1..Len(haiku) |->
                        [text |-> haiku[i].text, user_id |-> haiku[i].user_id,
                         id |-> haiku[i].id]],
      channel_id |-> context.channel_id,
      team_id    |-> context.team_id,
      created    |-> created,
      id         |-> id ]

\* the rule of generate_random_haiku that returns None
rejected(fives, seven, found_fives, found_seven) ==
    fives = << >> \/ seven = << >> \/ (~found_fives /\ ~found_seven)

\* a composition that puts the seven last
haiku_lines_seven_last(fives, seven) == << fives[1], fives[2], seven[1] >>

\* lines=[fives[0], seven, fives[1]]
haiku_lines(fives, seven) == << fives[1], seven[1], fives[2] >>

\* a generate that returns None when the poem insert is not acknowledged
generate_random_haiku_insert_fatal(L, P, context, user_id, search_term, id, created, ack) ==
    UNION { IF f.fault
            THEN { [fault |-> TRUE, haiku |-> << >>, found |-> <<FALSE, FALSE>>, poems |-> P,
                    printed |-> FALSE] }
            ELSE { IF rejected(f.fives, s.seven, f.found, s.found)
                   THEN [fault |-> FALSE, haiku |-> << >>, found |-> <<f.found, s.found>>,
                         poems |-> P, printed |-> FALSE]
                   ELSE LET haiku == haiku_lines(f.fives, s.seven)
                        IN  [fault |-> FALSE, haiku |-> IF ack THEN haiku ELSE << >>,
                             found |-> <<f.found, s.found>>,
                             poems |-> IF ack
                                       THEN P \cup {Haiku_to_bson(haiku, context, id, created)}
                                       ELSE P,
                             printed |-> ~ack] :
                   s \in get_random_seven(L, context, user_id, search_term) } :
            f \in get_random_fives(L, context, user_id, search_term) }

\* results of generate_random_haiku on the store (L, P): the Haiku returned
\* (<< >> for None), the two found_search_term flags and the poems collection
\* afterwards; ack is whether db.poems.insert_one reports an inserted id, and
\* printed whether the 'Failed to insert haiku into DB!' line was printed
generate_random_haiku(L, P, context, user_id, search_term, id, created, ack) ==
    UNION { IF f.fault
            THEN { [fault |-> TRUE, haiku |-> << >>, found |-> <<FALSE, FALSE>>, poems |-> P,
                    printed |-> FALSE] }
            ELSE { IF rejected(f.fives, s.seven, f.found, s.found)
                   THEN [fault |-> FALSE, haiku |-> << >>, found |-> <<f.found, s.found>>,
                         poems |-> P, printed |-> FALSE]
                   ELSE LET haiku == haiku_lines(f.fives, s.seven)
                        IN  [fault |-> FALSE, haiku |-> haiku, found |-> <<f.found, s.found>>,
                             poems |-> IF ack
                                       THEN P \cup {Haiku_to_bson(haiku, context, id, created)}
                                       ELSE P,
                             printed |-> ~ack] :
                   s \in get_random_seven(L, context, user_id, search_term) } :
            f \in get_random_fives(L, context, user_id, search_term) }

----------------------------------------------------------------------------
(* The line repository *)

\* a key that leaves the syllable count out
get_line_key_no_syllables(r, text, syllables, context) ==
    r.text = text /\ r.team_id = context.team_id

\* a key that leaves the team out
get_line_key_any_team(r, text, syllables, context) ==
    r.text = text /\ r.syllables = syllables

\* get_line_key, as the predicate its filter document states
get_line_key(r, text, syllables, context) ==
    r.text = text /\ r.syllables = syllables /\ r.team_id = context.team_id

\* HaikuLine(text, syllables, context, position).to_bson(), with the _id that
\* insert_one gives it
HaikuLine_to_bson(text, syllables, context, position, id, created) ==
    [ id |-> id, text |-> text, syllables |-> syllables, user_id |-> context.user_id,
      channel_id |-> context.channel_id, team_id |-> context.team_id,
      created |-> created, position |-> position ]

\* an add that inserts without counting the rows of the key first
add_haiku_line_unchecked(L, text, syllables, context, position, id, created, ack) ==
    [ret |-> TRUE,
     lines |-> L \cup {HaikuLine_to_bson(text, syllables, context, position, id, created)}]

\* add_haiku_line: the value returned and db.lines afterwards; ack is whether
\* db.lines.insert_one reports an inserted id
add_haiku_line(L, text, syllables, context, position, id, created, ack) ==
    IF Cardinality({ r \in L : get_line_key(r, text, syllables, context) }) > 0
    THEN [ret |-> TRUE, lines |-> L]
    ELSE IF ack
    THEN [ret |-> TRUE,
          lines |-> L \cup {HaikuLine_to_bson(text, syllables, context, position, id, created)}]
    ELSE [ret |-> FALSE, lines |-> L]

\* remove_haiku_line: delete_many by key, deleted_count > 0
remove_haiku_line(L, text, syllables, context) ==
    LET deleted == { r \in L : get_line_key(r, text, syllables, context) }
    IN  [ret |-> Cardinality(deleted) > 0, lines |-> L \ deleted]

\* get_haiku_line: the rows find_one can return, none when no row has the key
get_haiku_line(L, text, syllables, context) ==
    { r \in L : get_line_key(r, text, syllables, context) }

\* a claim that leaves the poems as they are
propagate_claim_skipped(P, line_id, context) == P

\* an update_one in place of the update_many: only the oldest poem of the team
\* is rewritten
propagate_claim_one_poem(P, line_id, context) ==
    { IF p.team_id = context.team_id
         /\ \A q \in P : q.team_id = context.team_id => p.created <= q.created
      THEN [p EXCEPT !.lines = [i \in DOMAIN p.lines |->
                                   IF p.lines[i].id = line_id
                                   THEN [p.lines[i] EXCEPT !.user_id = context.user_id]
                                   ELSE p.lines[i]]]
      ELSE p : p \in P }

\* db.poems.update_many of claim_haiku_line: in every poem of the team, the
\* embedded lines with the claimed id get the claimant as user_id
propagate_claim(P, line_id, context) ==
    { IF p.team_id = context.team_id
      THEN [p EXCEPT !.lines = [i \in DOMAIN p.lines |->
                                   IF p.lines[i].id = line_id
                                   THEN [p.lines[i] EXCEPT !.user_id = context.user_id]
                                   ELSE p.lines[i]]]
      ELSE p : p \in P }

\* a claim that does not look at modified_count
claim_haiku_line_unchecked(L, P, text, syllables, context) ==
    IF get_haiku_line(L, text, syllables, context) = {}
    THEN { [ret |-> FALSE, lines |-> L, poems |-> P] }
    ELSE { [ret |-> TRUE,
            lines |-> (L \ {line}) \cup {[line EXCEPT !.user_id = context.user_id]},
            poems |-> propagate_claim(P, line.id, context)] :
           line \in get_haiku_line(L, text, syllables, context) }

\* claim_haiku_line: the results it can have on the store (L, P)
claim_haiku_line(L, P, text, syllables, context) ==
    IF get_haiku_line(L, text, syllables, context) = {}
    THEN { [ret |-> FALSE, lines |-> L, poems |-> P] }
    ELSE { IF line.user_id = context.user_id
           THEN [ret |-> FALSE, lines |-> L, poems |-> P]  \* modified_count == 0
           ELSE [ret |-> TRUE,
                 lines |-> (L \ {line}) \cup {[line EXCEPT !.user_id = context.user_id]},
                 poems |-> propagate_claim(P, line.id, context)] :
           line \in get_haiku_line(L, text, syllables, context) }

----------------------------------------------------------------------------
(* Blame and stats *)

\* a lookup that leaves the channel out of the filter
latest_haiku_any_channel(P, context) ==
    LET scope == { p \in P : p.team_id = context.team_id }
    IN  { p \in scope : \A q \in scope : q.created <= p.created }

\* find_one({'channel_id', 'team_id'}, sort=[('created', DESCENDING)])
latest_haiku(P, context) ==
    LET scope == { p \in P : p.channel_id = context.channel_id /\ p.team_id = context.team_id }
    IN  { p \in scope : \A q \in scope : q.created <= p.created }

\* Haiku.from_bson(latest_haiku).user_ids
user_ids(poem) == [i \in 1..Len(poem.lines) |-> poem.lines[i].user_id]

\* get_haiku_blame: the lists it can return, << >> for None
get_haiku_blame(P, context) ==
    IF latest_haiku(P, context) = {} THEN { << >> }
    ELSE { user_ids(p) : p \in latest_haiku(P, context) }

\* counts the pairs of fives without their order
possible_combinations_unordered(five_syllable_lines, seven_syllable_lines) ==
    (five_syllable_lines * seven_syllable_lines * (five_syllable_lines - 1)) \div 2

\* HaikuStats.possible_combinations
possible_combinations(five_syllable_lines, seven_syllable_lines) ==
    five_syllable_lines * seven_syllable_lines * (five_syllable_lines - 1)

\* stats whose poem filter leaves the user out
get_haiku_stats_all_poems(L, P, context, user_id) ==
    LET rows == { r \in L : r.team_id = context.team_id
                            /\ (user_id # NoUser => r.user_id = user_id) }
        five == Cardinality({ r \in rows : r.syllables = 5 })
        seven == Cardinality({ r \in rows : r.syllables = 7 })
    IN  [ five_syllable_lines   |-> five,
          seven_syllable_lines  |-> seven,
          total_poems           |-> Cardinality({ p \in P : p.team_id = context.team_id }),
          unique_users          |-> Cardinality({ r.user_id : r \in rows }),
          possible_combinations |-> possible_combinations(five, seven) ]

\* get_haiku_stats with HaikuStats.from_cursor
get_haiku_stats(L, P, context, user_id) ==
    LET rows == { r \in L : r.team_id = context.team_id
                            /\ (user_id # NoUser => r.user_id = user_id) }
        counted == { p \in P : p.team_id = context.team_id
                               /\ (user_id # NoUser =>
                                      \E i \in DOMAIN p.lines : p.lines[i].user_id = user_id) }
        five == Cardinality({ r \in rows : r.syllables = 5 })
        seven == Cardinality({ r \in rows : r.syllables = 7 })
    IN  [ five_syllable_lines   |-> five,
          seven_syllable_lines  |-> seven,
          total_poems           |-> Cardinality(counted),
          unique_users          |-> Cardinality({ r.user_id : r \in rows }),
          possible_combinations |-> possible_combinations(five, seven) ]

----------------------------------------------------------------------------
(* The responses of haiku.py *)

\* SlackResponse: what the message reports, and its visibility
SlackResponse(kind, ephemeral, by, about, text) ==
    [kind |-> kind, ephemeral |-> ephemeral, by |-> by, about |-> about, text |-> text]

\* no response: an exception left the handler
NoResponse == SlackResponse("none", FALSE, NoUser, NoTerm, << >>)

\* Haiku.text
haiku_text(haiku) == [i \in 1..Len(haiku) |-> haiku[i].text]

\* generate_haiku
generate_haiku(L, P, context, user_id, search_term, id, created, ack) ==
    { [ fault |-> g.fault, haiku |-> g.haiku, found |-> g.found, poems |-> g.poems,
        printed |-> g.printed,
        resp  |-> IF g.fault THEN NoResponse
                  ELSE IF g.haiku # << >>
                  THEN SlackResponse("poem", FALSE, NoUser, NoTerm, haiku_text(g.haiku))
                  ELSE SlackResponse("generate_failed", FALSE, user_id, search_term, << >>) ] :
      g \in generate_random_haiku(L, P, context, user_id, search_term, id, created, ack) }

\* get_blame
get_blame(P, context) ==
    { [blame |-> b,
       resp  |-> IF b # << >> THEN SlackResponse("blame", FALSE, NoUser, NoTerm, b)
                 ELSE SlackResponse("blame_failed", TRUE, NoUser, NoTerm, << >>)] :
      b \in get_haiku_blame(P, context) }

\* get_stats
get_stats(L, P, context, user_id) ==
    [stats |-> get_haiku_stats(L, P, context, user_id),
     resp  |-> SlackResponse("stats", FALSE, user_id, NoTerm, << >>)]

----------------------------------------------------------------------------
(* The state machine *)

NoStats ==
    [five_syllable_lines |-> 0, seven_syllable_lines |-> 0, total_poems |-> 0,
     unique_users |-> 0, possible_combinations |-> 0]

NoFound == <<FALSE, FALSE>>

NoContext == [user_id |-> NoUser, channel_id |-> "", team_id |-> ""]

\* the last operation: its arguments, whether an exception left it (fault),
\* what it returned (ok), the Haiku with the two found_search_term flags, the
\* blame list or the stats it produced, the response, and whether it printed
\* that the poem insert failed
Outcome(op, context, text, syllables, position, user_id, search_term, fault, ok, haiku, found, blame, stats, resp) ==
    [op |-> op, context |-> context, text |-> text, syllables |-> syllables,
     position |-> position, user_id |-> user_id, search_term |-> search_term,
     fault |-> fault, ok |-> ok, haiku |-> haiku, found |-> found, blame |-> blame,
     stats |-> stats, resp |-> resp, printed |-> FALSE]

NoOutcome ==
    Outcome("none", NoContext, << >>, 0, NoPosition, NoUser, NoTerm, FALSE, FALSE, << >>,
            NoFound, << >>, NoStats, NoResponse)

\* a stored line; datetime.now() of a line is taken as the order of its insert
Row(id, text, syllables, user_id, channel_id, team_id, position) ==
    [ id |-> id, text |-> text, syllables |-> syllables, user_id |-> user_id,
      channel_id |-> channel_id, team_id |-> team_id, created |-> id,
      position |-> position ]

\* no add_haiku_line call is under way
NoAdds == << >>

\* no generate and no claim run side by side
NoRace == << >>

\* the store after an operation; the _id generators are capped
Store(newLines, newPoems) ==
    /\ adds' = adds
    /\ race' = race
    /\ lines' = newLines
    /\ poems' = newPoems
    /\ nextLine' = IF \E r \in newLines : r.id = nextLine THEN nextLine + 1 ELSE nextLine
    /\ nextPoem' = IF \E p \in newPoems : p.id = nextPoem THEN nextPoem + 1 ELSE nextPoem
    /\ nextLine' # nextLine => nextLine <= MaxLineId
    /\ Cardinality(newPoems) <= MaxPoems

\* what another team, T2, stored earlier: lines with the texts T1 uses, and poems
\* in the channels T1 uses
OtherLines(base) ==
    { Row(base + 1, TextPo, 5, "UT", "C1", "T2", NoPosition),
      Row(base + 2, TextSk, 5, "UT", "C1", "T2", NoPosition),
      Row(base + 3, TextSk, 7, "UT", "C1", "T2", NoPosition) }

OtherPoem(base, id, channel_id) ==
    [ lines |-> << [text |-> TextPo, user_id |-> "UT", id |-> base + 1],
                   [text |-> TextSk, user_id |-> "UT", id |-> base + 3],
                   [text |-> TextSk, user_id |-> "UT", id |-> base + 2] >>,
      channel_id |-> channel_id, team_id |-> "T2", created |-> id, id |-> id ]

\* the database the program connects to: earlier add commands of UA and UB
\* stored three lines of T1 and a generate in channel C2 stored a poem of them
Init ==
    /\ lines = { Row(1, TextPo, 5, "UA", "C1", "T1", NoPosition),
                 Row(2, TextSk, 5, "UA", "C1", "T1", LAST),
                 Row(3, TextSk, 7, "UB", "C2", "T1", NoPosition) } \cup OtherLines(3)
    /\ poems = { OtherPoem(3, 1, "C1"),
                 [ lines |-> << [text |-> TextPo, user_id |-> "UA", id |-> 1],
                                [text |-> TextSk, user_id |-> "UB", id |-> 3],
                                [text |-> TextSk, user_id |-> "UA", id |-> 2] >>,
                   channel_id |-> "C2", team_id |-> "T1", created |-> 2, id |-> 2 ] }
    /\ nextLine = 7
    /\ nextPoem = 3
    /\ last = NoOutcome
    /\ adds = NoAdds
    /\ race = NoRace

\* generate_haiku(context, user_id, search_term); acks are the answers
\* db.poems.insert_one can give
Generate(contexts, users, terms, acks) ==
    \E context \in contexts, user_id \in users, search_term \in terms, ack \in acks :
        \E g \in generate_haiku(lines, poems, context, user_id, search_term, nextPoem, nextPoem, ack) :
            /\ Store(lines, g.poems)
            /\ last' = [Outcome("generate", context, << >>, 0, NoPosition, user_id, search_term,
                                g.fault, g.haiku # << >>, g.haiku, g.found, << >>, NoStats,
                                g.resp) EXCEPT !.printed = g.printed]

\* add_haiku_line(text, syllables, context, position), with the arguments
\* handle_add_remove_command passes: a position comes with 5 syllables only
Add ==
    \E context \in Contexts, text \in OpTexts, syllables \in Syllables,
       position \in OpPositions, ack \in BOOLEAN :
        LET a == add_haiku_line(lines, text, syllables, context, position, nextLine, nextLine, ack)
        IN  /\ syllables = 7 => position = NoPosition
            /\ Store(a.lines, poems)
            /\ last' = Outcome("add", context, text, syllables, position, NoUser, NoTerm,
                               FALSE, a.ret, << >>, NoFound, << >>, NoStats, NoResponse)

\* a remove that also deletes the poems that embed a removed line
RemoveCascade ==
    \E context \in Contexts, text \in OpTexts, syllables \in Syllables :
        LET r == remove_haiku_line(lines, text, syllables, context)
            removed == { l.id : l \in lines \ r.lines }
        IN  /\ Store(r.lines, { p \in poems : \A i \in DOMAIN p.lines : p.lines[i].id \notin removed })
            /\ last' = Outcome("remove", context, text, syllables, NoPosition, NoUser, NoTerm,
                               FALSE, r.ret, << >>, NoFound, << >>, NoStats, NoResponse)

\* remove_haiku_line(text, syllables, context)
Remove ==
    \E context \in Contexts, text \in OpTexts, syllables \in Syllables :
        LET r == remove_haiku_line(lines, text, syllables, context)
        IN  /\ Store(r.lines, poems)
            /\ last' = Outcome("remove", context, text, syllables, NoPosition, NoUser, NoTerm,
                               FALSE, r.ret, << >>, NoFound, << >>, NoStats, NoResponse)

\* claim_haiku_line(text, syllables, context)
Claim ==
    \E context \in Contexts, text \in OpTexts, syllables \in Syllables :
        \E c \in claim_haiku_line(lines, poems, text, syllables, context) :
            /\ Store(c.lines, c.poems)
            /\ last' = Outcome("claim", context, text, syllables, NoPosition, NoUser, NoTerm,
                               FALSE, c.ret, << >>, NoFound, << >>, NoStats, NoResponse)

\* get_blame(context)
Blame ==
    \E context \in Contexts :
        \E b \in get_blame(poems, context) :
            /\ Store(lines, poems)
            /\ last' = Outcome("blame", context, << >>, 0, NoPosition, NoUser, NoTerm,
                               FALSE, b.blame # << >>, << >>, NoFound, b.blame, NoStats,
                               b.resp)

\* get_stats(context, user_id)
Stats ==
    \E context \in Contexts, user_id \in Users \cup {NoUser} :
        LET s == get_stats(lines, poems, context, user_id)
        IN  /\ Store(lines, poems)
            /\ last' = Outcome("stats", context, << >>, 0, NoPosition, user_id, NoTerm,
                               FALSE, TRUE, << >>, NoFound, << >>, s.stats, s.resp)

Next ==
    \/ Generate(Contexts, {NoUser}, {NoTerm}, BOOLEAN)
    \/ Add
    \/ Remove
    \/ Claim
    \/ Blame
    \/ Stats

Spec == Init /\ [][Next]_vars

----------------------------------------------------------------------------
(* The composer on its own: generate on every repository of a family *)

\* the repositories of T1 the composer is run on: the fives Po, Sk (of UA) and,
\* in some, Sx (of UB) under every position, and any of the sevens Po (of UA),
\* sz (of UB)
InitCompose ==
    /\ \E p1, p2, p3 \in Positions, fives \in {{1, 2}, {1, 2, 3}}, sevens \in SUBSET {4, 5} :
          lines = { r \in { Row(1, TextPo, 5, "UA", "C1", "T1", p1),
                            Row(2, TextSk, 5, "UA", "C1", "T1", p2),
                            Row(3, TextSx, 5, "UB", "C2", "T1", p3) } :
                    r.id \in fives }
                  \cup { r \in { Row(4, TextPo, 7, "UA", "C1", "T1", NoPosition),
                                 Row(5, TextSz, 7, "UB", "C2", "T1", NoPosition) } :
                         r.id \in sevens }
                  \cup OtherLines(5)
    /\ poems = { OtherPoem(5, 1, "C1"), OtherPoem(5, 2, "C2") }
    /\ nextLine = 9
    /\ nextPoem = 3
    /\ last = NoOutcome
    /\ adds = NoAdds
    /\ race = NoRace

NextCompose == Generate({ContextA}, Users \cup {NoUser}, Terms \cup {NoTerm}, {TRUE})

SpecCompose == InitCompose /\ [][NextCompose]_vars

----------------------------------------------------------------------------
(* The command handlers of haiku.py *)

\* the words of SYLLABLE_PATTERN, lower case
CountWords == { <<"5">>, <<"7">>, <<"f", "i", "v", "e">>, <<"s", "e", "v", "e", "n">> }

PositionWords ==
    { <<"^">>, <<"$">>, <<"1", "s", "t">>, <<"f", "i", "r", "s", "t">>, <<"l", "a", "s", "t">> }

SYLLABLE_COUNTS ==
    (<<"5">> :> 5) @@ (<<"f", "i", "v", "e">> :> 5) @@ (<<"7">> :> 7)
    @@ (<<"s", "e", "v", "e", "n">> :> 7)

LINE_POSITIONS ==
    (<<"^">> :> FIRST) @@ (<<"1", "s", "t">> :> FIRST) @@ (<<"f", "i", "r", "s", "t">> :> FIRST)
    @@ (<<"$">> :> LAST) @@ (<<"l", "a", "s", "t">> :> LAST)

\* SYLLABLE_PATTERN.match(token): the groups count and position (<< >> when
\* the token has no [position]) of the match, or no match
SYLLABLE_PATTERN_match(token) ==
    { m \in [count : CountWords, position : PositionWords \cup {<< >>}] :
        \E s \in { << >>, <<"s">> } :
            LowerSeq(token) = m.count \o s \o (IF m.position = << >> THEN << >>
                                               ELSE <<"[">> \o m.position \o <<"]">>) }

\* slack_escape(tokens): the tokens joined by blanks; the words of the model
\* hold no &, < or >, which is all that escaping changes
RECURSIVE slack_escape(_)
slack_escape(tokens) ==
    IF tokens = << >> THEN << >>
    ELSE IF Len(tokens) = 1 THEN tokens[1]
    ELSE tokens[1] \o <<" ">> \o slack_escape(Tail(tokens))

\* the words commands are written with
WordAdd == <<"a", "d", "d">>
WordRemove == <<"r", "e", "m", "o", "v", "e">>
WordClaim == <<"c", "l", "a", "i", "m">>
WordBlame == <<"b", "l", "a", "m", "e">>
WordPraise == <<"p", "r", "a", "i", "s", "e">>
WordAbout == <<"a", "b", "o", "u", "t">>
WordBy == <<"b", "y">>
WordFor == <<"f", "o", "r">>
WordMe == <<"m", "e">>
WordStats == <<"s", "t", "a", "t", "s">>
WordVersion == <<"v", "e", "r", "s", "i", "o", "n">>

\* slack_mention(user_id) of the users of the model
slack_mention == ("UA" :> <<"<", "@", "U", "A", ">">>) @@ ("UB" :> <<"<", "@", "U", "B", ">">>)

\* get_user_id(slack_user_id) on the tokens of the model: the user of a
\* mention, None for a word that is no mention
get_user_id(slack_user_id) ==
    IF \E u \in Users : slack_mention[u] = slack_user_id
    THEN CHOOSE u \in Users : slack_mention[u] = slack_user_id
    ELSE NoUser

\* what a handler leaves behind: the store, whether an exception left it
\* (fault), what the repository call returned (ok), the Haiku, blame or stats it
\* produced, and its SlackResponse
Handled(L, P, ok, resp) ==
    [lines |-> L, poems |-> P, fault |-> FALSE, ok |-> ok, haiku |-> << >>, found |-> NoFound,
     printed |-> FALSE, blame |-> << >>, stats |-> NoStats, resp |-> resp]

Usage(L, P, kind) == Handled(L, P, FALSE, SlackResponse(kind, TRUE, NoUser, NoTerm, << >>))

\* generate_haiku as a handler
handle_generate(L, P, context, user_id, search_term, poem_id, ack_poem) ==
    { [Handled(L, g.poems, g.haiku # << >>, g.resp)
          EXCEPT !.fault = g.fault, !.haiku = g.haiku, !.found = g.found,
                 !.printed = g.printed] :
      g \in generate_haiku(L, P, context, user_id, search_term, poem_id, poem_id, ack_poem) }

\* add_line: add_haiku_line, then a haiku about exactly the line
add_line(L, P, line, syllables, context, position, line_id, poem_id, ack_line, ack_poem) ==
    LET a == add_haiku_line(L, line, syllables, context, position, line_id, line_id, ack_line)
    IN  IF a.ret
        THEN { [h EXCEPT !.ok = TRUE] :
               h \in handle_generate(a.lines, P, context, NoUser, exact_term(line), poem_id,
                                     ack_poem) }
        ELSE { Handled(L, P, FALSE, SlackResponse("add_failed", TRUE, NoUser, NoTerm, line)) }

\* remove_line
remove_line(L, P, line, syllables, context) ==
    LET r == remove_haiku_line(L, line, syllables, context)
    IN  IF r.ret
        THEN Handled(r.lines, P, TRUE, SlackResponse("removed", FALSE, NoUser, NoTerm, line))
        ELSE Handled(L, P, FALSE, SlackResponse("remove_failed", TRUE, NoUser, NoTerm, line))

\* a claim_line whose failures go to the whole channel
claim_line_failures_broadcast(L, P, line, syllables, context, line_id, poem_id, ack_line, ack_poem) ==
    IF get_haiku_line(L, line, syllables, context) = {}
    THEN add_line(L, P, line, syllables, context, NoPosition, line_id, poem_id, ack_line, ack_poem)
    ELSE UNION {
           IF existing_line.user_id = context.user_id
           THEN { Handled(L, P, FALSE, SlackResponse("claim_own", FALSE, NoUser, NoTerm, line)) }
           ELSE { IF c.ret
                  THEN Handled(c.lines, c.poems, TRUE,
                               SlackResponse("claimed", FALSE, existing_line.user_id, NoTerm, line))
                  ELSE Handled(L, P, FALSE,
                               SlackResponse("claim_failed", FALSE, NoUser, NoTerm, line)) :
                  c \in claim_haiku_line(L, P, line, syllables, context) } :
           existing_line \in get_haiku_line(L, line, syllables, context) }

\* claim_line: a line that does not exist is added
claim_line(L, P, line, syllables, context, line_id, poem_id, ack_line, ack_poem) ==
    IF get_haiku_line(L, line, syllables, context) = {}
    THEN add_line(L, P, line, syllables, context, NoPosition, line_id, poem_id, ack_line, ack_poem)
    ELSE UNION {
           IF existing_line.user_id = context.user_id
           THEN { Handled(L, P, FALSE, SlackResponse("claim_own", TRUE, NoUser, NoTerm, line)) }
           ELSE { IF c.ret
                  THEN Handled(c.lines, c.poems, TRUE,
                               SlackResponse("claimed", FALSE, existing_line.user_id, NoTerm, line))
                  ELSE Handled(L, P, FALSE,
                               SlackResponse("claim_failed", TRUE, NoUser, NoTerm, line)) :
                  c \in claim_haiku_line(L, P, line, syllables, context) } :
           existing_line \in get_haiku_line(L, line, syllables, context) }

\* an add that takes a position with any syllable count
handle_add_remove_command_any_position(L, P, subcommand, args, context, line_id, poem_id, ack_line, ack_poem) ==
    IF Len(args) < 2 \/ SYLLABLE_PATTERN_match(args[1]) = {}
    THEN { Usage(L, P, IF subcommand = WordAdd THEN "add_usage" ELSE "remove_usage") }
    ELSE LET match == CHOOSE m \in SYLLABLE_PATTERN_match(args[1]) : TRUE
             syllables == SYLLABLE_COUNTS[match.count]
             line == slack_escape(Tail(args))
             position == IF match.position # << >> THEN LINE_POSITIONS[match.position]
                         ELSE NoPosition
         IN  IF subcommand = WordAdd
             THEN add_line(L, P, line, syllables, context, position, line_id, poem_id,
                           ack_line, ack_poem)
             ELSE { remove_line(L, P, line, syllables, context) }

\* handle_add_remove_command
handle_add_remove_command(L, P, subcommand, args, context, line_id, poem_id, ack_line, ack_poem) ==
    IF Len(args) < 2 \/ SYLLABLE_PATTERN_match(args[1]) = {}
    THEN { Usage(L, P, IF subcommand = WordAdd THEN "add_usage" ELSE "remove_usage") }
    ELSE LET match == CHOOSE m \in SYLLABLE_PATTERN_match(args[1]) : TRUE
             syllables == SYLLABLE_COUNTS[match.count]
             line == slack_escape(Tail(args))
             position == IF match.position # << >> THEN LINE_POSITIONS[match.position]
                         ELSE NoPosition
         IN  IF subcommand = WordAdd
             THEN IF syllables = 7 /\ position # NoPosition
                  THEN { Usage(L, P, "position_not_allowed") }
                  ELSE add_line(L, P, line, syllables, context, position, line_id, poem_id,
                                ack_line, ack_poem)
             ELSE { remove_line(L, P, line, syllables, context) }

\* handle_claim_command
handle_claim_command(L, P, args, context, line_id, poem_id, ack_line, ack_poem) ==
    IF Len(args) < 2 \/ SYLLABLE_PATTERN_match(args[1]) = {}
    THEN { Usage(L, P, "claim_usage") }
    ELSE LET match == CHOOSE m \in SYLLABLE_PATTERN_match(args[1]) : TRUE
         IN  IF match.position # << >>
             THEN { Usage(L, P, "position_only_when_adding") }
             ELSE claim_line(L, P, slack_escape(Tail(args)), SYLLABLE_COUNTS[match.count],
                             context, line_id, poem_id, ack_line, ack_poem)

\* handle_about_command
handle_about_command(L, P, args, context, poem_id, ack_poem) ==
    IF args = << >>
    THEN { Usage(L, P, "about_usage") }
    ELSE IF slack_escape(args) \in { <<".">>, <<".", "*">>, <<".", "+">> }
    THEN handle_generate(L, P, context, NoUser, NoTerm, poem_id, ack_poem)
    ELSE handle_generate(L, P, context, NoUser, slack_escape(args), poem_id, ack_poem)

\* handle_by_command
handle_by_command(L, P, args, context, poem_id, ack_poem) ==
    IF Len(args) # 1
    THEN { Usage(L, P, "by_usage") }
    ELSE IF LowerSeq(args[1]) = WordMe
    THEN handle_generate(L, P, context, context.user_id, NoTerm, poem_id, ack_poem)
    ELSE IF get_user_id(args[1]) = NoUser
    THEN { Usage(L, P, "tag_a_user") }
    ELSE handle_generate(L, P, context, get_user_id(args[1]), NoTerm, poem_id, ack_poem)

\* get_blame as a handler
handle_blame(L, P, context) ==
    { [Handled(L, P, b.blame # << >>, b.resp) EXCEPT !.blame = b.blame] :
      b \in get_blame(P, context) }

\* get_stats as a handler
handle_stats(L, P, context, user_id) ==
    LET s == get_stats(L, P, context, user_id)
    IN  { [Handled(L, P, TRUE, s.resp) EXCEPT !.stats = s.stats] }

\* handle_stats_command
handle_stats_command(L, P, args, context) ==
    IF args = << >>
    THEN handle_stats(L, P, context, NoUser)
    ELSE IF Len(args) # 2 \/ LowerSeq(args[1]) \notin { WordAbout, WordBy, WordFor }
    THEN { Usage(L, P, "stats_usage") }
    ELSE IF LowerSeq(args[2]) = WordMe
    THEN handle_stats(L, P, context, context.user_id)
    ELSE IF get_user_id(args[2]) = NoUser
    THEN { Usage(L, P, "tag_a_user") }
    ELSE handle_stats(L, P, context, get_user_id(args[2]))

\* handle_haiku_command on a text split into its tokens
handle_haiku_command(L, P, text, context, line_id, poem_id, ack_line, ack_poem) ==
    IF text = << >>
    THEN handle_generate(L, P, context, NoUser, NoTerm, poem_id, ack_poem)
    ELSE LET subcommand == LowerSeq(text[1])
             args == Tail(text)
         IN  IF subcommand \in { WordAdd, WordRemove }
             THEN handle_add_remove_command(L, P, subcommand, args, context, line_id, poem_id,
                                            ack_line, ack_poem)
             ELSE IF subcommand \in { WordBlame, WordPraise }
             THEN IF args # << >> THEN { Usage(L, P, "blame_usage") }
                  ELSE handle_blame(L, P, context)
             ELSE IF subcommand = WordClaim
             THEN handle_claim_command(L, P, args, context, line_id, poem_id, ack_line, ack_poem)
             ELSE IF subcommand = WordAbout
             THEN handle_about_command(L, P, args, context, poem_id, ack_poem)
             ELSE IF subcommand = WordBy
             THEN handle_by_command(L, P, args, context, poem_id, ack_poem)
             ELSE IF subcommand = WordStats
             THEN handle_stats_command(L, P, args, context)
             ELSE IF subcommand = WordVersion
             THEN IF args # << >> THEN { Usage(L, P, "version_usage") }
                  ELSE { Handled(L, P, TRUE, SlackResponse("version", TRUE, NoUser, NoTerm, << >>)) }
             ELSE { Usage(L, P, "help") }

----------------------------------------------------------------------------
(* The bot under commands *)

Token5 == <<"5">>
Token7 == <<"7">>
Token5Last == <<"5", "[", "l", "a", "s", "t", "]">>
Token7Last == <<"7", "[", "l", "a", "s", "t", "]">>
TokenSix == <<"6">>

\* the texts users send: well-formed and malformed ones of every subcommand
GenerateTexts == { << >>, <<WordAbout>> }

AddTexts ==
    { <<WordAdd, Token5Last, TextSk>>, <<WordAdd, Token7, TextSk>>,
      <<WordAdd, Token7Last, TextSk>>, <<WordAdd, TokenSix, TextSk>>, <<WordAdd, Token5>> }

RemoveTexts == { <<WordRemove, Token7, TextSk>>, <<WordRemove, Token5>> }

ClaimTexts ==
    { <<WordClaim, Token7, TextSk>>, <<WordClaim, Token5Last, TextSk>>, <<WordClaim, Token5>> }

QueryTexts ==
    { <<WordBlame>>, <<WordBlame, TextSk>>, <<WordStats>>, <<WordStats, WordFor>>, <<TextSk>> }

\* a command of one of the texts, handled by handle_haiku_command; ack_line and
\* ack_poem are whether the inserts it makes are acknowledged
Command(texts, acks_line, acks_poem) ==
    \E context \in Contexts, text \in texts, ack_line \in acks_line, ack_poem \in acks_poem :
        \E h \in handle_haiku_command(lines, poems, text, context, nextLine, nextPoem,
                                      ack_line, ack_poem) :
            /\ Store(h.lines, h.poems)
            /\ last' = [Outcome("command", context, text, 0, NoPosition, NoUser, NoTerm, h.fault,
                                h.ok, h.haiku, h.found, h.blame, h.stats, h.resp)
                           EXCEPT !.printed = h.printed]

CmdGenerate == Command(GenerateTexts, {TRUE}, BOOLEAN)

CmdAdd == Command(AddTexts, BOOLEAN, {TRUE})

CmdRemove == Command(RemoveTexts, {TRUE}, {TRUE})

CmdClaim == Command(ClaimTexts, BOOLEAN, {TRUE})

CmdQuery == Command(QueryTexts, {TRUE}, {TRUE})

NextCmd == CmdGenerate \/ CmdAdd \/ CmdRemove \/ CmdClaim \/ CmdQuery

SpecCmd == Init /\ [][NextCmd]_vars

----------------------------------------------------------------------------
(* Concurrent adds: add_haiku_line as its two repository calls *)

\* db.lines.insert_one under the unique index (text, syllables, team_id): a
\* document whose key is stored raises DuplicateKeyError; ack is whether the
\* result carries an inserted id
insert_one(L, row, ack) ==
    IF \E r \in L : r.text = row.text /\ r.syllables = row.syllables /\ r.team_id = row.team_id
    THEN [raised |-> TRUE, ret |-> FALSE, lines |-> L]
    ELSE IF ack THEN [raised |-> FALSE, ret |-> TRUE, lines |-> L \cup {row}]
    ELSE [raised |-> FALSE, ret |-> FALSE, lines |-> L]

\* the calls add the 5-syllable line "sk" for T1; T2 stores a line of that text
InitAdd ==
    /\ lines = { Row(1, TextPo, 5, "UA", "C1", "T1", NoPosition) } \cup OtherLines(1)
    /\ poems = {}
    /\ nextLine = 5
    /\ nextPoem = 1
    /\ last = NoOutcome
    /\ adds \in [1..MaxAdds -> { [context |-> context, position |-> position, pc |-> "count",
                                  ret |-> FALSE] :
                                context \in Contexts, position \in OpPositions }]
    /\ race = NoRace

\* db.lines.count_documents(get_line_key(text, syllables, context)) > 0
AddCount(a) ==
    /\ adds[a].pc = "count"
    /\ adds' = [adds EXCEPT ![a] =
                   IF \E r \in lines : get_line_key(r, TextSk, 5, adds[a].context)
                   THEN [@ EXCEPT !.pc = "returned", !.ret = TRUE]
                   ELSE [@ EXCEPT !.pc = "insert"]]
    /\ UNCHANGED <<lines, poems, nextLine, nextPoem, last, race>>

\* db.lines.insert_one(line.to_bson()) and the return
AddInsert(a) ==
    /\ adds[a].pc = "insert"
    /\ \E ack \in BOOLEAN :
          LET row == HaikuLine_to_bson(TextSk, 5, adds[a].context, adds[a].position, nextLine,
                                       nextLine)
              i == insert_one(lines, row, ack)
          IN  /\ lines' = i.lines
              /\ nextLine' = IF row \in i.lines THEN nextLine + 1 ELSE nextLine
              /\ adds' = [adds EXCEPT ![a] =
                             [@ EXCEPT !.pc = IF i.raised THEN "raised" ELSE "returned",
                                       !.ret = i.ret]]
    /\ UNCHANGED <<poems, nextPoem, last, race>>

NextAdd == \E a \in 1..MaxAdds : AddCount(a) \/ AddInsert(a)

SpecAdd == InitAdd /\ [][NextAdd]_vars

----------------------------------------------------------------------------
(* The sampler on its own: one call of get_random_lines *)

\* the sample sizes the callers pass
SampleSizes == { SampleSizeDefault, SampleSizeFives }

\* the exclude_ids the call is tried with: none, one line, two lines
ExcludeIdSets == { {}, {1}, {2, 3} }

\* a call that is about to be made, with its arguments
SampleCall(syllables, context, user_id, search_term, exclude_ids, exclude_position, sample_size) ==
    [op |-> "call", syllables |-> syllables, context |-> context, user_id |-> user_id,
     search_term |-> search_term, exclude_ids |-> exclude_ids,
     exclude_position |-> exclude_position, sample_size |-> sample_size, returned |-> << >>]

\* T1 stores the fives Po (of UA), sk (of UA, under any position) and sx (of UB,
\* last) and the sevens Po (of UA) and sz (of UB); the arguments of the call
\* are any the callers can pass
InitSample ==
    /\ \E p2 \in Positions :
          lines = { Row(1, TextPo, 5, "UA", "C1", "T1", NoPosition),
                    Row(2, TextSk, 5, "UA", "C1", "T1", p2),
                    Row(3, TextSx, 5, "UB", "C2", "T1", LAST),
                    Row(4, TextPo, 7, "UA", "C1", "T1", NoPosition),
                    Row(5, TextSz, 7, "UB", "C2", "T1", NoPosition) } \cup OtherLines(5)
    /\ poems = {}
    /\ nextLine = 9
    /\ nextPoem = 1
    /\ adds = NoAdds
    /\ race = NoRace
    /\ \E syllables \in Syllables, user_id \in Users \cup {NoUser},
          search_term \in Terms \cup {NoTerm}, exclude_ids \in ExcludeIdSets,
          exclude_position \in Positions, sample_size \in SampleSizes :
          last = SampleCall(syllables, ContextA, user_id, search_term, exclude_ids,
                            exclude_position, sample_size)

\* get_random_lines(syllables, context, user_id, search_term, exclude_ids,
\* exclude_position, sample_size) returns
Sample ==
    /\ last.op = "call"
    /\ \E ls \in get_random_lines(lines, last.syllables, last.context, last.user_id,
                                  last.search_term, last.exclude_ids, last.exclude_position,
                                  last.sample_size) :
          last' = [last EXCEPT !.op = "sample", !.returned = ls]
    /\ UNCHANGED <<lines, poems, nextLine, nextPoem, adds, race>>

NextSample == Sample

SpecSample == InitSample /\ [][NextSample]_vars

----------------------------------------------------------------------------
(* A claim and a generate side by side, each as its repository calls *)

\* the calls about to be made: generate_random_haiku(context) and
\* claim_haiku_line("sk", syllables, context)
RaceCalls(gen_context, claim_context, syllables) ==
    [ gen   |-> [pc |-> "fives", context |-> gen_context, fives |-> << >>, found |-> FALSE,
                 haiku |-> << >>],
      claim |-> [pc |-> "find", context |-> claim_context, text |-> TextSk,
                 syllables |-> syllables, line |-> << >>, ret |-> FALSE] ]

\* T1 stores the fives Po and sk of UA and the seven sk of UB, and in some
\* databases a poem made of them
InitRace ==
    /\ lines = { Row(1, TextPo, 5, "UA", "C1", "T1", NoPosition),
                 Row(2, TextSk, 5, "UA", "C1", "T1", LAST),
                 Row(3, TextSk, 7, "UB", "C2", "T1", NoPosition) } \cup OtherLines(3)
    /\ \E seeded \in BOOLEAN :
          poems = IF seeded
                  THEN { OtherPoem(3, 1, "C1"),
                         Haiku_to_bson(<< Row(1, TextPo, 5, "UA", "C1", "T1", NoPosition),
                                          Row(3, TextSk, 7, "UB", "C2", "T1", NoPosition),
                                          Row(2, TextSk, 5, "UA", "C1", "T1", LAST) >>,
                                       ContextB, 2, 2) }
                  ELSE { OtherPoem(3, 1, "C1") }
    /\ nextLine = 7
    /\ nextPoem = 3
    /\ last = NoOutcome
    /\ adds = NoAdds
    /\ \E gen_context \in Contexts, claim_context \in Contexts, syllables \in {5, 7} :
          race = RaceCalls(gen_context, claim_context, syllables)

\* get_random_fives of generate_random_haiku (db.py 218)
GenFives ==
    /\ race.gen.pc = "fives"
    /\ \E f \in get_random_fives(lines, race.gen.context, NoUser, NoTerm) :
          race' = [race EXCEPT !.gen =
                      IF f.fault THEN [@ EXCEPT !.pc = "raised"]
                      ELSE [@ EXCEPT !.pc = "seven", !.fives = f.fives, !.found = f.found]]
    /\ UNCHANGED <<lines, poems, nextLine, nextPoem, last, adds>>

\* get_random_seven and the test that returns None (db.py 219-224)
GenSeven ==
    /\ race.gen.pc = "seven"
    /\ \E s \in get_random_seven(lines, race.gen.context, NoUser, NoTerm) :
          race' = [race EXCEPT !.gen =
                      IF rejected(race.gen.fives, s.seven, race.gen.found, s.found)
                      THEN [@ EXCEPT !.pc = "returned"]
                      ELSE [@ EXCEPT !.pc = "insert",
                                     !.haiku = haiku_lines(race.gen.fives, s.seven)]]
    /\ UNCHANGED <<lines, poems, nextLine, nextPoem, last, adds>>

\* db.poems.insert_one(haiku.to_bson()) and the return (db.py 225-228)
GenInsert ==
    /\ race.gen.pc = "insert"
    /\ \E ack \in BOOLEAN :
          /\ poems' = IF ack
                      THEN poems \cup {Haiku_to_bson(race.gen.haiku, race.gen.context, nextPoem,
                                                     nextPoem)}
                      ELSE poems
          /\ nextPoem' = IF ack THEN nextPoem + 1 ELSE nextPoem
    /\ race' = [race EXCEPT !.gen.pc = "returned"]
    /\ UNCHANGED <<lines, nextLine, last, adds>>

\* get_haiku_line of claim_haiku_line (db.py 245-246)
ClaimFind ==
    /\ race.claim.pc = "find"
    /\ LET found == get_haiku_line(lines, race.claim.text, race.claim.syllables,
                                   race.claim.context)
       IN  IF found = {}
           THEN race' = [race EXCEPT !.claim.pc = "returned"]
           ELSE \E line \in found :
                   race' = [race EXCEPT !.claim.pc = "update", !.claim.line = <<line>>]
    /\ UNCHANGED <<lines, poems, nextLine, nextPoem, last, adds>>

\* db.lines.update_one by _id and the test of modified_count (db.py 247-249)
ClaimUpdate ==
    /\ race.claim.pc = "update"
    /\ LET modified == { r \in lines : /\ r.id = race.claim.line[1].id
                                       /\ r.user_id # race.claim.context.user_id }
       IN  /\ lines' = (lines \ modified)
                       \cup { [r EXCEPT !.user_id = race.claim.context.user_id] : r \in modified }
           /\ race' = [race EXCEPT !.claim.pc = IF modified = {} THEN "returned"
                                                ELSE "propagate"]
    /\ UNCHANGED <<poems, nextLine, nextPoem, last, adds>>

\* a claim that returns whether update_many modified a poem
ClaimPropagateStrict ==
    /\ race.claim.pc = "propagate"
    /\ poems' = propagate_claim(poems, race.claim.line[1].id, race.claim.context)
    /\ race' = [race EXCEPT !.claim.pc = "returned", !.claim.ret = (poems' # poems)]
    /\ UNCHANGED <<lines, nextLine, nextPoem, last, adds>>

\* db.poems.update_many and return True (db.py 250-254)
ClaimPropagate ==
    /\ race.claim.pc = "propagate"
    /\ poems' = propagate_claim(poems, race.claim.line[1].id, race.claim.context)
    /\ race' = [race EXCEPT !.claim.pc = "returned", !.claim.ret = TRUE]
    /\ UNCHANGED <<lines, nextLine, nextPoem, last, adds>>

NextRace ==
    \/ GenFives
    \/ GenSeven
    \/ GenInsert
    \/ ClaimFind
    \/ ClaimUpdate
    \/ ClaimPropagate

SpecRace == InitRace /\ [][NextRace]_vars

----------------------------------------------------------------------------
(* Properties *)

\* generate returned a Haiku
Generated == last.op = "generate" /\ last.haiku # << >>

SyllablesOf(haiku) == [i \in DOMAIN haiku |-> haiku[i].syllables]

\* the texts and ids a stored poem embeds, in order
Embedded(p) == [i \in DOMAIN p.lines |-> <<p.lines[i].text, p.lines[i].id>>]

Matches(term, line) == regex_search(term, line.text)

HasKey(r, o) == r.text = o.text /\ r.syllables = o.syllables /\ r.team_id = o.context.team_id

\* the poems a blame of context looks at
ScopeOf(P, context) ==
    { p \in P : p.team_id = context.team_id /\ p.channel_id = context.channel_id }

\* every stored poem has three lines, and an embedded id that still names a
\* stored line names one with the syllable count of its place
StoredPattern ==
    \A p \in poems :
        /\ Len(p.lines) = 3
        /\ \A i \in 1..3 : \A r \in lines :
              r.id = p.lines[i].id => r.syllables = <<5, 7, 5>>[i]

\* a step returns a Haiku of 5, 7, 5 syllables, and a poem stored after it
\* either was stored before with the same embedded lines or is that Haiku
FiveSevenFiveStep ==
    /\ (last'.op = "generate" /\ last'.haiku # << >>) =>
          SyllablesOf(last'.haiku) = <<5, 7, 5>>
    /\ \A p \in poems' :
          \/ \E q \in poems : q.id = p.id /\ Embedded(q) = Embedded(p)
          \/ /\ last'.op = "generate"
             /\ SyllablesOf(last'.haiku) = <<5, 7, 5>>
             /\ Embedded(p) = [i \in 1..3 |-> <<last'.haiku[i].text, last'.haiku[i].id>>]

\* C1: every poem generate returns, and every poem stored after any sequence
\* of add, remove, claim and generate, has exactly three lines of 5, 7 and 5
\* syllables in that order.
C1_PoemsAreFiveSevenFive == []StoredPattern /\ [][FiveSevenFiveStep]_vars

\* a poem generated in channel C1 is stored, and a line it embeds was removed
C1_Witness ==
    \E p \in poems :
        /\ p.team_id = "T1" /\ p.channel_id = "C1"
        /\ \E i \in 1..3 : \A r \in lines : r.id # p.lines[i].id

\* C2: in every poem generate returns, with or without owner filter and
\* search term, the first line is not a LAST line and the last line is not a
\* FIRST line.
C2_PositionsRespected ==
    Generated => last.haiku[1].position # LAST /\ last.haiku[3].position # FIRST

\* a search matched a LAST line only: the poem starts with a line that does not
\* match and ends with the LAST line
C2_Witness ==
    /\ Generated
    /\ last.search_term # NoTerm
    /\ ~Matches(last.search_term, last.haiku[1])
    /\ Matches(last.search_term, last.haiku[3])
    /\ last.haiku[3].position = LAST

\* C3: no operation lets a fault escape; in particular generate returns a poem
\* or a failure when its first-line selection falls back to a fresh sample
\* because every candidate drawn is a LAST line.
C3_NoFaultEscapes == last.fault = FALSE

\* the lines generate can use hold a first line, another last line and a seven
Fillable(L, context, user_id) ==
    LET usable == { r \in L : r.team_id = context.team_id
                              /\ (user_id # NoUser => r.user_id = user_id) }
    IN  /\ \E a, b \in usable :
              /\ a # b /\ a.syllables = 5 /\ b.syllables = 5
              /\ a.position # LAST /\ b.position # FIRST
        /\ \E c \in usable : c.syllables = 7

\* a generate whose search term matches no line of the team fails, stores
\* nothing and names the term
NoMatchStep ==
    ( /\ last'.op = "generate"
      /\ last'.search_term # NoTerm
      /\ \A r \in lines : r.team_id = last'.context.team_id => ~Matches(last'.search_term, r)
      /\ Fillable(lines, last'.context, last'.user_id) )
    => /\ last'.haiku = << >>
       /\ poems' = poems
       /\ last'.resp.kind = "generate_failed"
       /\ last'.resp.about = last'.search_term

\* C4: when the search term matches no 5- and no 7-syllable line of the team
\* while enough other lines exist to fill a poem, generate fails, the poems are
\* unchanged and the failure message names the search term.
C4_NoMatchFails == [][NoMatchStep]_vars

\* C5: a poem returned for a search term holds a line that matches it: the
\* fives flag is true only if a five placed in the poem matches, and the seven
\* flag only if the seven placed matches.
C5_SearchTermPlaced ==
    (Generated /\ last.search_term # NoTerm) =>
        /\ \E i \in 1..3 : Matches(last.search_term, last.haiku[i])
        /\ last.found[1] =>
              Matches(last.search_term, last.haiku[1]) \/ Matches(last.search_term, last.haiku[3])
        /\ last.found[2] => Matches(last.search_term, last.haiku[2])

\* the fives flag is true with one matching five drawn and used beside a five
\* that does not match, and the seven does not match
C5_Witness ==
    /\ Generated /\ last.search_term # NoTerm
    /\ last.found = <<TRUE, FALSE>>
    /\ Matches(last.search_term, last.haiku[1]) # Matches(last.search_term, last.haiku[3])
    /\ ~Matches(last.search_term, last.haiku[2])

UniqueKeys ==
    \A r1, r2 \in lines :
        (r1.text = r2.text /\ r1.syllables = r2.syllables /\ r1.team_id = r2.team_id)
            => r1 = r2

\* an add of a key that is stored returns success and leaves db.lines alone
AddExistingStep ==
    (last'.op = "add" /\ \E r \in lines : HasKey(r, last'))
        => last'.ok /\ lines' = lines

\* C6: db.lines holds at most one row per (text, syllables, team); an add whose
\* key exists returns success, creates no row and leaves the existing row
\* unchanged, also for another owner or another position.
C6_AddIdempotent == []UniqueKeys /\ [][AddExistingStep]_vars

\* an add by another user, with another position, of a key that is stored
C6_Witness ==
    /\ last.op = "add" /\ last.ok
    /\ \E r \in lines :
          /\ HasKey(r, last)
          /\ r.user_id # last.context.user_id
          /\ r.channel_id # last.context.channel_id
          /\ r.position # last.position

\* remove succeeds iff a row had the key, leaves no row with the key and
\* leaves every other row as it was
RemoveStep ==
    last'.op = "remove" =>
        /\ last'.ok <=> \E r \in lines : HasKey(r, last')
        /\ \A r \in lines' : ~HasKey(r, last')
        /\ lines' = { r \in lines : ~HasKey(r, last') }

\* C7: remove returns success iff a row with the key existed; afterwards no
\* row of the team has the key, whatever channel or owner it was created
\* under, and the rows of every other key are unchanged.
C7_RemoveByKey == [][RemoveStep]_vars

\* UA removed, from channel C1, the seven that UB added in channel C2; the
\* five with the same text stays
C7_Witness ==
    /\ last.op = "remove" /\ last.ok
    /\ last.context = ContextA /\ last.syllables = 7
    /\ nextLine = 7
    /\ \E r \in lines : r.team_id = "T1" /\ r.text = last.text /\ r.syllables = 5

\* a claim of a key that is not stored, or whose row the claimant owns,
\* returns failure and changes nothing
ClaimFailsStep ==
    ( /\ last'.op = "claim"
      /\ \/ ~\E r \in lines : HasKey(r, last')
         \/ \E r \in lines : HasKey(r, last') /\ r.user_id = last'.context.user_id )
    => ~last'.ok /\ lines' = lines /\ poems' = poems

Rewritten(p, q, id, user_id) ==
    /\ q.id = p.id /\ q.created = p.created
    /\ q.channel_id = p.channel_id /\ q.team_id = p.team_id
    /\ Embedded(q) = Embedded(p)
    /\ \A i \in 1..3 :
          q.lines[i].user_id = IF p.lines[i].id = id THEN user_id ELSE p.lines[i].user_id

\* a successful claim moves the line to the claimant, rewrites the embedded
\* owner in the poems of the team, and blame reports the claimant
ClaimSucceedsStep ==
    (last'.op = "claim" /\ last'.ok) =>
        \E r \in lines :
            /\ HasKey(r, last')
            /\ lines' = (lines \ {r}) \cup {[r EXCEPT !.user_id = last'.context.user_id]}
            /\ Cardinality(poems') = Cardinality(poems)
            /\ \A p \in poems : \E q \in poems' :
                  IF p.team_id = last'.context.team_id
                  THEN Rewritten(p, q, r.id, last'.context.user_id)
                  ELSE q = p
            /\ \A context \in Contexts : \A p \in latest_haiku(poems', context) :
                  \A i \in 1..3 :
                      p.lines[i].id = r.id =>
                          \A b \in get_haiku_blame(poems', context) :
                              b[i] = last'.context.user_id

\* C9: after a successful claim by B the line's owner is B and every poem of
\* the team that embeds the line's id has that embedded owner rewritten to B,
\* so blame reports B at that place; the other embedded owners are unchanged.
C9_ClaimPropagates == [][ClaimSucceedsStep]_vars

\* UB claimed a line that the latest poem of a channel embeds beside a line of
\* another owner
C9_Witness ==
    /\ last.op = "claim" /\ last.ok /\ last.context.user_id = "UB"
    /\ \E r \in lines : \E p \in latest_haiku(poems, ContextB) : \E i, j \in 1..3 :
          /\ HasKey(r, last)
          /\ p.lines[i].id = r.id /\ p.lines[i].user_id = "UB"
          /\ p.lines[j].user_id = "UA"

\* C10: blame returns the three embedded owners, first, middle, last, of the
\* most recently created poem of the request's team and channel; poems of
\* another channel or team do not count; it returns nothing when the scope has
\* no poem.
C10_BlameLatestInScope ==
    last.op = "blame" =>
        IF ScopeOf(poems, last.context) = {}
        THEN last.blame = << >> /\ ~last.ok
        ELSE \E p \in ScopeOf(poems, last.context) :
                /\ \A q \in ScopeOf(poems, last.context) : q.created <= p.created
                /\ last.blame = <<p.lines[1].user_id, p.lines[2].user_id, p.lines[3].user_id>>

\* blame in channel C2 reported the later of the two poems of T1 there, while
\* team T2 has a poem in channel C1
C10_Witness ==
    /\ last.op = "blame" /\ last.ok /\ last.context = ContextB
    /\ Cardinality(ScopeOf(poems, ContextB)) = 2
    /\ \E p \in poems : p.team_id = "T2" /\ p.channel_id = "C1"

\* the lines of the team, of the owner when one is given, with a syllable count
UsableLines(L, context, user_id, syllables) ==
    { r \in L : /\ r.team_id = context.team_id
                /\ r.syllables = syllables
                /\ user_id # NoUser => r.user_id = user_id }

\* a generate that has fewer than two fives or no seven to use returns the
\* failure and stores nothing
TooFewLinesStep ==
    ( /\ last'.op = "generate"
      /\ \/ Cardinality(UsableLines(lines, last'.context, last'.user_id, 5)) < 2
         \/ UsableLines(lines, last'.context, last'.user_id, 7) = {} )
    => /\ last'.haiku = << >>
       /\ last'.resp.kind = "generate_failed"
       /\ poems' = poems

\* C11: generate fails and stores no poem whenever the team, restricted to the
\* owner filter if one is given, holds fewer than two 5-syllable lines or no
\* 7-syllable line, with and without a search term.
C11_TooFewLinesFails == [][TooFewLinesStep]_vars

\* the part of C11 that is left when the exception counts as failing: no Haiku
\* is returned and nothing is stored
TooFewLinesNoPoemStep ==
    ( /\ last'.op = "generate"
      /\ \/ Cardinality(UsableLines(lines, last'.context, last'.user_id, 5)) < 2
         \/ UsableLines(lines, last'.context, last'.user_id, 7) = {} )
    => last'.haiku = << >> /\ poems' = poems

TooFewLinesNoPoem == [][TooFewLinesNoPoemStep]_vars

\* the team of the context holds exactly one five that must come first, one five
\* that must come last and one seven
ScenarioB(L, context) ==
    LET fives == UsableLines(L, context, NoUser, 5)
        sevens == UsableLines(L, context, NoUser, 7)
    IN  /\ Cardinality(fives) = 2
        /\ Cardinality(sevens) = 1
        /\ \E f, l \in fives : f.position = FIRST /\ l.position = LAST

\* the ids of [L1, L3, L2] in a repository of scenario B
ScenarioBPoem(L, context) ==
    LET fives == UsableLines(L, context, NoUser, 5)
        sevens == UsableLines(L, context, NoUser, 7)
    IN  << (CHOOSE f \in fives : f.position = FIRST).id,
           (CHOOSE s \in sevens : TRUE).id,
           (CHOOSE l \in fives : l.position = LAST).id >>

ScenarioBStep ==
    ( /\ last'.op = "generate"
      /\ last'.user_id = NoUser
      /\ last'.search_term = NoTerm
      /\ ScenarioB(lines, last'.context) )
    => /\ last'.haiku # << >>
       /\ [i \in 1..3 |-> last'.haiku[i].id] = ScenarioBPoem(lines, last'.context)

\* C12: with exactly one FIRST five L1, one LAST five L2 and one seven L3 in the
\* team, every generate for the team returns the poem [L1, L3, L2], whatever
\* order the sampler returns the candidates in.
C12_ScenarioBDeterministic == [][ScenarioBStep]_vars

\* what is left of C12 when a sample may come back short: a generate of
\* scenario B that returns a poem returns [L1, L3, L2]
ScenarioBPoemStep ==
    ( /\ last'.op = "generate"
      /\ last'.user_id = NoUser
      /\ last'.search_term = NoTerm
      /\ ScenarioB(lines, last'.context)
      /\ last'.haiku # << >> )
    => [i \in 1..3 |-> last'.haiku[i].id] = ScenarioBPoem(lines, last'.context)

ScenarioBOnlyThatPoem == [][ScenarioBPoemStep]_vars

\* C13: in every Stats snapshot, after any sequence of operations,
\* possibleCombinations is fiveCount * sevenCount * (fiveCount - 1), the counts
\* being the 5- and 7-syllable lines now stored for the team, of the owner
\* when one is given.
C13_PossibleCombinations ==
    last.op = "stats" =>
        LET five == Cardinality(UsableLines(lines, last.context, last.user_id, 5))
            seven == Cardinality(UsableLines(lines, last.context, last.user_id, 7))
        IN  /\ last.stats.five_syllable_lines = five
            /\ last.stats.seven_syllable_lines = seven
            /\ last.stats.possible_combinations = five * seven * (five - 1)

\* a snapshot of a team with two fives and a seven, taken after a line was
\* removed and added again: 2 * 1 * 1
C13_Witness ==
    /\ last.op = "stats"
    /\ last.user_id = NoUser
    /\ nextLine > 7
    /\ last.stats.five_syllable_lines = 2
    /\ last.stats.possible_combinations = 2

\* the last operation took the stats of a user who owns no line of the team
StatsOfUserWithoutLines ==
    /\ last.op = "stats"
    /\ last.user_id # NoUser
    /\ UsableLines(lines, last.context, last.user_id, 5) = {}
    /\ UsableLines(lines, last.context, last.user_id, 7) = {}

\* the poems of the team that embed a line with the user as owner
PoemsEmbedding(P, context, user_id) ==
    { p \in P : /\ p.team_id = context.team_id
                /\ \E i \in DOMAIN p.lines : p.lines[i].user_id = user_id }

\* C14: the stats of an owner U who has no line in the team are five-count 0,
\* seven-count 0, possibleCombinations 0 and total-poems 0, after any sequence
\* of operations, also when lines U once owned were used in poems and then
\* removed or claimed away.
C14_NoLinesAllZero ==
    StatsOfUserWithoutLines =>
        /\ last.stats.five_syllable_lines = 0
        /\ last.stats.seven_syllable_lines = 0
        /\ last.stats.possible_combinations = 0
        /\ last.stats.total_poems = 0

\* C14 as the code has it: the line counts and possibleCombinations are 0, and
\* total-poems is 0 exactly when no poem of the team embeds a line with U as
\* owner; a claim rewrites the embedded owner, a remove leaves it.
C14_NoLinesZeroUnlessEmbedded ==
    StatsOfUserWithoutLines =>
        /\ last.stats.five_syllable_lines = 0
        /\ last.stats.seven_syllable_lines = 0
        /\ last.stats.possible_combinations = 0
        /\ last.stats.total_poems =
              Cardinality(PoemsEmbedding(poems, last.context, last.user_id))
        /\ last.stats.total_poems = 0
              <=> PoemsEmbedding(poems, last.context, last.user_id) = {}

\* the stats of UB after the line of UB that the stored poem of T1 embeds was
\* claimed away: the poem still embeds line 3, now with another owner
C14_Witness ==
    /\ StatsOfUserWithoutLines
    /\ last.user_id = "UB"
    /\ last.stats.total_poems = 0
    /\ \E p \in poems : /\ p.team_id = last.context.team_id
                        /\ \E i \in DOMAIN p.lines : /\ p.lines[i].id = 3
                                                     /\ p.lines[i].user_id # "UB"

\* the poem the last generate returned, as the document insert_one was given
ComposedPoem == Haiku_to_bson(last.haiku, last.context, nextPoem, nextPoem)

\* a generate whose poem insert is not acknowledged returns the poem as a
\* success and leaves db.poems as it was
UnacknowledgedStep ==
    (last'.op = "generate" /\ last'.printed)
    => /\ last'.haiku # << >>
       /\ last'.ok
       /\ ~last'.fault
       /\ last'.resp = SlackResponse("poem", FALSE, NoUser, NoTerm, haiku_text(last'.haiku))
       /\ poems' = poems
       /\ nextPoem' = nextPoem

\* a blame right after it reports nothing or a poem that was stored before it
BlameAfterUnacknowledgedStep ==
    (last.op = "generate" /\ last.printed /\ last'.op = "blame")
    => \/ last'.blame = << >>
       \/ \E p \in poems : /\ p.id < nextPoem
                           /\ p.channel_id = last'.context.channel_id
                           /\ p.team_id = last'.context.team_id
                           /\ last'.blame = user_ids(p)

\* C15: when both passes succeed and the acceptance rule is met but the store
\* does not acknowledge the poem insert, generate still returns the composed
\* poem as a success; db.poems is unchanged, so a later latestAuthors for that
\* scope does not report this poem.
C15_UnacknowledgedInsert ==
    /\ [][UnacknowledgedStep]_vars
    /\ [][BlameAfterUnacknowledgedStep]_vars
    /\ [](last.op = "generate" /\ last.printed => ComposedPoem \notin poems)

\* an unacknowledged generate in a channel that has a stored poem, the authors of
\* the returned poem not being the ones a blame reports
C15_Witness ==
    /\ last.op = "generate"
    /\ last.printed
    /\ get_haiku_blame(poems, last.context) # { << >> }
    /\ [i \in 1..3 |-> last.haiku[i].user_id] \notin get_haiku_blame(poems, last.context)

\* the command o reports has the subcommand word
Subcommand(o, word) == o.op = "command" /\ o.text # << >> /\ o.text[1] = word

\* the syllable count and the position the token of a command states
StatedSyllables(text) ==
    { SYLLABLE_COUNTS[m.count] : m \in SYLLABLE_PATTERN_match(text[2]) }

StatesPosition(text) == \E m \in SYLLABLE_PATTERN_match(text[2]) : m.position # << >>

\* an add of a 7-syllable line with a position is answered with an ephemeral
\* message and changes neither collection
PositionedSevenStep ==
    ( /\ Subcommand(last', WordAdd)
      /\ Len(last'.text) >= 3
      /\ StatedSyllables(last'.text) = {7}
      /\ StatesPosition(last'.text) )
    => /\ last'.resp.ephemeral
       /\ last'.resp.kind = "position_not_allowed"
       /\ ~last'.ok
       /\ lines' = lines
       /\ poems' = poems

NoPositionedSeven == \A r \in lines : r.syllables = 7 => r.position = NoPosition

\* C16: an add with a position and 7 syllables is rejected with an ephemeral
\* message and changes no state; so after any sequence of add, remove and
\* claim commands, a claim that creates a missing line included, no stored
\* 7-syllable line has a position.
C16_NoPositionOnSevens == []NoPositionedSeven /\ [][PositionedSevenStep]_vars

\* the rejected add of "sk" as a last line of 7 syllables, sent when the team
\* stores no 7-syllable "sk", after a claim had created one
C16_Witness ==
    /\ Subcommand(last, WordAdd)
    /\ last.text = <<WordAdd, Token7Last, TextSk>>
    /\ last.resp.kind = "position_not_allowed"
    /\ get_haiku_line(lines, TextSk, 7, last.context) = {}
    /\ nextLine > 7

\* the line a claim command names is not stored for the team of the requester
ClaimOfMissingLine(o, L) ==
    /\ Subcommand(o, WordClaim)
    /\ Len(o.text) >= 3
    /\ StatedSyllables(o.text) # {}
    /\ ~StatesPosition(o.text)
    /\ \A syllables \in StatedSyllables(o.text) :
          get_haiku_line(L, slack_escape(Tail(Tail(o.text))), syllables, o.context) = {}

ClaimOfMissingLineStep ==
    ClaimOfMissingLine(last', lines)
    => /\ last'.resp.ephemeral
       /\ ~last'.ok
       /\ lines' = lines
       /\ poems' = poems

\* C17: a claim command whose target (text, syllableCount, team) does not exist
\* is answered with an ephemeral not-found failure and creates no line and no
\* poem.
C17_ClaimOfMissingLineFails == [][ClaimOfMissingLineStep]_vars

\* the text is not a command the handlers accept: a subcommand that is not
\* known, arguments that are missing or too many, a token that is no syllable
\* count, or a position where none may stand
UsageError(text) ==
    /\ text # << >>
    /\ LET subcommand == text[1]
           args == Tail(text)
           unparsed == Len(args) < 2 \/ SYLLABLE_PATTERN_match(args[1]) = {}
       IN  \/ subcommand \notin { WordAdd, WordRemove, WordClaim, WordBlame, WordPraise,
                                  WordAbout, WordBy, WordStats, WordVersion }
           \/ subcommand \in { WordAdd, WordRemove, WordClaim } /\ unparsed
           \/ subcommand = WordAdd /\ ~unparsed /\ StatedSyllables(text) = {7}
              /\ StatesPosition(text)
           \/ subcommand = WordClaim /\ ~unparsed /\ StatesPosition(text)
           \/ subcommand \in { WordBlame, WordPraise, WordVersion } /\ args # << >>
           \/ subcommand = WordAbout /\ args = << >>
           \/ subcommand = WordBy /\ (Len(args) # 1 \/ args[1] \notin { WordMe } \cup Range(slack_mention))
           \/ subcommand = WordStats /\ args # << >>
              /\ ( \/ Len(args) # 2
                   \/ args[1] \notin { WordAbout, WordBy, WordFor }
                   \/ args[2] \notin { WordMe } \cup Range(slack_mention) )

FailedClaim(o) == Subcommand(o, WordClaim) /\ ~UsageError(o.text) /\ ~o.ok /\ ~o.fault

SuccessfulGeneration(o) ==
    /\ o.op = "command"
    /\ o.text = << >> \/ o.text[1] \in { WordAbout, WordBy }
    /\ o.haiku # << >>

SuccessfulBlame(o) == Subcommand(o, WordBlame) /\ o.blame # << >>

StatsRequest(o) == Subcommand(o, WordStats) /\ ~UsageError(o.text)

SameButOwners(p, q) ==
    /\ q.id = p.id /\ q.created = p.created
    /\ q.channel_id = p.channel_id /\ q.team_id = p.team_id
    /\ Embedded(q) = Embedded(p)

\* every stored poem stays, unchanged but for the owner a successful claim
\* writes into the snapshots of the claimed line
PoemsKeptStep ==
    \A p \in poems :
        \/ p \in poems'
        \/ /\ last'.op = "claim" /\ last'.ok
           /\ p.team_id = last'.context.team_id
           /\ \E r \in lines, q \in poems' :
                 /\ HasKey(r, last')
                 /\ Rewritten(p, q, r.id, last'.context.user_id)

\* a poem that was not stored before is the one a successful generate returned
PoemsInsertedStep ==
    \A q \in poems' :
        (\A p \in poems : ~SameButOwners(p, q)) =>
            /\ last'.op = "generate" /\ last'.haiku # << >>
            /\ q = Haiku_to_bson(last'.haiku, last'.context, nextPoem, nextPoem)

\* add, remove, blame, stats and a generate that fails leave db.poems alone
PoemsUntouchedStep ==
    ( \/ last'.op \in { "add", "remove", "blame", "stats" }
      \/ last'.op = "generate" /\ last'.haiku = << >> )
    => poems' = poems

\* C19: stored poems are append-only: a poem is inserted only by a successful
\* generate, no operation deletes a poem, and the only change of a stored poem
\* is a claim rewriting the embedded owner of the snapshots of the claimed line;
\* add and remove, also of a line a poem embeds, and a failed generate leave
\* db.poems unchanged.
C19_PoemsAppendOnly ==
    /\ [][PoemsKeptStep]_vars
    /\ [][PoemsInsertedStep]_vars
    /\ [][PoemsUntouchedStep]_vars

\* a line was removed that a stored poem of its team embeds; the poem is there
C19_Witness ==
    /\ last.op = "remove"
    /\ last.ok
    /\ \E p \in poems :
          /\ p.team_id = last.context.team_id
          /\ \E i \in DOMAIN p.lines :
                /\ p.lines[i].text = last.text
                /\ \A r \in lines : r.id # p.lines[i].id

\* C20: with two or more adds of the same (text, syllableCount, team) running
\* at the same time, their existence checks and inserts interleaving, no state
\* holds two rows with that key and every add returns a definite success or
\* failure.
C20_ConcurrentAdds ==
    /\ UniqueKeys
    /\ \A a \in DOMAIN adds : adds[a].pc # "raised"

\* the part of C20 the unique index gives: no two rows with the key
ConcurrentAddsOneRow ==
    Cardinality({ r \in lines : r.text = TextSk /\ r.syllables = 5 /\ r.team_id = "T1" }) <= 1

\* C22: in every poem generate returns, the first and the last line are two
\* distinct stored lines: the last line is chosen from candidates without the
\* line chosen as first, also when the last line comes from the fresh sample
\* that excludes FIRST lines.
C22_FirstAndLastDiffer ==
    Generated =>
        /\ last.haiku[1].id # last.haiku[3].id
        /\ \E a, b \in lines : a.id = last.haiku[1].id /\ b.id = last.haiku[3].id /\ a # b

\* C23: when generate is called with an owner filter, each of the three lines
\* of the returned poem is owned by that owner, in every branch: the expansion
\* of the fives without the search term, the fresh samples for the first and
\* the last line, and the fallback for the seven without the search term.
C23_OwnerFilterKept ==
    (Generated /\ last.user_id # NoUser) =>
        \A i \in 1..3 :
            /\ last.haiku[i].user_id = last.user_id
            /\ \E r \in lines : r.id = last.haiku[i].id /\ r.user_id = last.user_id

\* a poem by UA about a term that one five of UA matches and no seven of UA
\* does, while a seven of UB matches it: the fives were expanded and the seven
\* came from the fallback
C23_Witness ==
    /\ Generated
    /\ last.user_id = "UA"
    /\ last.search_term # NoTerm
    /\ last.found = <<TRUE, FALSE>>
    /\ \E i \in {1, 3} : ~Matches(last.search_term, last.haiku[i])
    /\ \E r \in lines : /\ r.team_id = last.context.team_id /\ r.syllables = 7
                        /\ r.user_id # "UA" /\ Matches(last.search_term, r)

\* C24: sample(syllableCount, team, owner, searchPattern, excludeIds,
\* excludePosition, n) returns at most n lines, no line twice even when the
\* primitive returns duplicates, and every returned line has the requested
\* syllable count and team, the requested owner when one is given, an id not
\* in excludeIds and a position other than excludePosition (a line without a
\* position passes).
C24_SamplerContract ==
    last.op = "sample" =>
        /\ Len(last.returned) <= last.sample_size
        /\ \A i, j \in DOMAIN last.returned : i # j => last.returned[i].id # last.returned[j].id
        /\ \A i \in DOMAIN last.returned :
              LET r == last.returned[i]
              IN  /\ r \in lines
                  /\ r.syllables = last.syllables
                  /\ r.team_id = last.context.team_id
                  /\ last.user_id # NoUser => r.user_id = last.user_id
                  /\ r.id \notin last.exclude_ids
                  /\ last.exclude_position = NoPosition \/ r.position # last.exclude_position

\* a sample of 4 that excludes a position came back with fewer lines than
\* match, so the primitive repeated a row, and holds a line without a position
C24_Witness ==
    /\ last.op = "sample"
    /\ last.sample_size = SampleSizeFives
    /\ last.exclude_position # NoPosition
    /\ Len(last.returned) < Cardinality(match_lines(lines, last.syllables, last.context, last.user_id, last.search_term, last.exclude_ids, last.exclude_position))
    /\ Len(last.returned) >= 2
    /\ \E i \in DOMAIN last.returned : last.returned[i].position = NoPosition

\* C25: with operations running one at a time, after any sequence of add,
\* remove, claim and generate every stored poem snapshot whose embedded line id
\* is the id of a stored line carries the owner that line has now.
C25_SnapshotOwnersCurrent ==
    \A p \in poems : \A i \in DOMAIN p.lines : \A r \in lines :
        r.id = p.lines[i].id => p.lines[i].user_id = r.user_id

\* a claim succeeded on a line that two stored poems of the team embed
C25_Witness ==
    /\ last.op = "claim"
    /\ last.ok
    /\ \E r \in lines :
          /\ HasKey(r, last)
          /\ r.user_id = last.context.user_id
          /\ \E p, q \in poems :
                /\ p # q
                /\ p.team_id = r.team_id /\ q.team_id = r.team_id
                /\ \E i \in DOMAIN p.lines : p.lines[i].id = r.id
                /\ \E i \in DOMAIN q.lines : q.lines[i].id = r.id

\* the team, of the owner when one is given, holds a seven and two distinct
\* fives of which one may come first and the other may come last
EnoughLines(L, context, user_id) ==
    /\ UsableLines(L, context, user_id, 7) # {}
    /\ \E a, b \in UsableLines(L, context, user_id, 5) :
          a # b /\ a.position # LAST /\ b.position # FIRST

\* a generate without a search term that has enough lines returns a poem
EnoughLinesStep ==
    ( /\ last'.op = "generate"
      /\ last'.search_term = NoTerm
      /\ EnoughLines(lines, last'.context, last'.user_id) )
    => last'.haiku # << >>

\* C26: generate with no search term returns a poem, never a failure, whenever
\* the team, restricted to the owner filter if given, holds at least one
\* 7-syllable line and two distinct 5-syllable lines a and b such that a is not
\* LAST and b is not FIRST, whichever candidates and order the sampler returns.
C26_EnoughLinesSucceed == [][EnoughLinesStep]_vars

\* the part of C26 that the code keeps: such a generate is never answered with a
\* poem that breaks a position constraint, and a poem is among its outcomes
EnoughLinesNoBadPoemStep ==
    ( /\ last'.op = "generate"
      /\ last'.search_term = NoTerm
      /\ EnoughLines(lines, last'.context, last'.user_id)
      /\ last'.haiku # << >> )
    => /\ last'.haiku[1].position # LAST
       /\ last'.haiku[3].position # FIRST
       /\ last'.haiku[2].syllables = 7

EnoughLinesNoBadPoem == [][EnoughLinesNoBadPoemStep]_vars

\* the rows of a collection that are not of the team
OfOtherTeams(S, context) == { x \in S : x.team_id # context.team_id }

\* an operation of a team leaves the lines and poems of every other team as
\* they are, a poem it returns is made of stored lines of the team, and a poem
\* it inserts is a poem of the team that embeds ids of lines of the team
TeamIsolationStep ==
    last'.op \in {"generate", "add", "remove", "claim"} =>
        /\ OfOtherTeams(lines', last'.context) = OfOtherTeams(lines, last'.context)
        /\ OfOtherTeams(poems', last'.context) = OfOtherTeams(poems, last'.context)
        /\ \A i \in DOMAIN last'.haiku :
              last'.haiku[i] \in lines /\ last'.haiku[i].team_id = last'.context.team_id
        /\ \A p \in { q \in poems' : \A o \in poems : o.id # q.id } :
              /\ p.team_id = last'.context.team_id
              /\ \A i \in DOMAIN p.lines :
                    \E r \in lines : r.id = p.lines[i].id /\ r.team_id = last'.context.team_id

\* C27: teams are isolated: a poem generated for team T contains only lines
\* stored under team T, and no add, remove, claim or generate issued in team T
\* changes any line or poem of another team, also when the other team stores a
\* line with the same text and syllable count.
C27_TeamsIsolated == [][TeamIsolationStep]_vars

\* a remove of a team deleted its line while another team keeps a line with the
\* same text and syllable count
C27_Witness ==
    /\ last.op = "remove"
    /\ last.ok
    /\ \A r \in lines : ~HasKey(r, last)
    /\ \E r \in lines :
          /\ r.team_id # last.context.team_id
          /\ r.text = last.text
          /\ r.syllables = last.syllables

\* the line the claim found, as it was stored then
ClaimedLine == race.claim.line[1]

\* a stored poem embeds the id of the claimed line with the owner the line had
\* before the claim, while the stored line has another owner
StaleSnapshot ==
    /\ race.claim.line # << >>
    /\ \E p \in poems : \E i \in DOMAIN p.lines :
          p.lines[i].id = ClaimedLine.id /\ p.lines[i].user_id = ClaimedLine.user_id
    /\ \E r \in lines : r.id = ClaimedLine.id /\ r.user_id # ClaimedLine.user_id

\* C21: when a claim of line X runs side by side with a generate that samples
\* X, some interleaving (X sampled, the claim updates the line and the poems,
\* the poem is inserted) leaves a stored poem that embeds X's id with the owner
\* from before the claim while the line has the new owner; whenever the claim
\* has returned and left such a poem, it returned success and the owner of the
\* line is the claimant.
C21_ClaimWinsRace ==
    (race # NoRace /\ race.claim.pc = "returned" /\ StaleSnapshot) =>
        /\ race.claim.ret
        /\ \A r \in lines : r.id = ClaimedLine.id => r.user_id = race.claim.context.user_id

\* the interleaving has happened: both calls returned, the claim with success,
\* and the poem the generate inserted is the one with the old owner
C21_Witness ==
    /\ race # NoRace
    /\ race.claim.pc = "returned"
    /\ race.gen.pc = "returned"
    /\ race.claim.ret
    /\ StaleSnapshot
    /\ \E p \in poems : /\ p.id = 3
                        /\ \E i \in DOMAIN p.lines :
                              /\ p.lines[i].id = ClaimedLine.id
                              /\ p.lines[i].user_id = ClaimedLine.user_id
                              /\ race.gen.haiku[i].id = ClaimedLine.id

\* once the claim has returned, only the poem of the generate can carry the old
\* owner: the poems stored before the claim were rewritten
OnlyTheNewPoemIsStale ==
    (race # NoRace /\ race.claim.pc = "returned" /\ race.claim.ret) =>
        \A p \in poems : \A i \in DOMAIN p.lines :
            (p.lines[i].id = ClaimedLine.id /\ p.lines[i].user_id = ClaimedLine.user_id)
            => p.id = 3

====
